---- MODULE Spec2Model ----
(***************************************************************************)
(* A model of allocator-bot: the portfolio optimizer and allocation        *)
(* composer (allocator_bot/portfolio.py), the allocation/task store        *)
(* (allocator_bot/storage.py) and the part of the agent's execution loop   *)
(* that drives them (allocator_bot/agent.py).                              *)
(*                                                                         *)
(* Numbers.  Volatilities and returns are integers in units of 1e-4        *)
(* (1500 is 0.15).  Raw solver weights are integers in units of 1e-6,      *)
(* cleaned weights integers in units of 1e-5 (clean_weights rounds to 5    *)
(* decimals).  Prices are integers in cents, investments in thousands of   *)
(* dollars.  The arithmetic of the code is done exactly on these.          *)
(*                                                                         *)
(* Python dicts keep insertion order; a dict is modelled as a sequence of  *)
(* records [k |-> key, v |-> value] with distinct keys.                    *)
(***************************************************************************)
EXTENDS Integers, Sequences, FiniteSets, TLC

\* ------------------------------------------------------------------------
\* Bounds of the model
\* ------------------------------------------------------------------------
\* achieved minimum volatilities are 0, 1000, ..., MaxVolLevel * 1000
MaxVolLevel == 2
\* requested targets are level * 1500 (volatility) and level * 500 (return)
MaxTargetLevel == 1
\* maximum single-asset returns are -MaxRetLevel*1000 .. MaxRetLevel*1000
MaxRetLevel == 1
\* storage clients (processes saving concurrently)
MaxClients == 2
\* calculate_quantities: weights are level * 0.25, level up to MaxWeightLevel
MaxWeightLevel == 4
\* calculate_quantities: investments of 0 .. MaxInvestment thousand dollars
MaxInvestment == 3
\* generate_id: the clock reads 0 .. MaxClock milliseconds
MaxClock == 1100
\* generate_id: the length argument is 0 .. MaxSuffix
MaxSuffix == 2
\* execution_loop: request.messages holds 1 .. MaxMessages messages
MaxMessages == 3

\* ------------------------------------------------------------------------
\* Insertion-ordered dicts
\* ------------------------------------------------------------------------
EmptyDict == << >>

DictKeys(d) == {d[i].k : i \in 1..Len(d)}

DictHas(d, key) == \E i \in 1..Len(d) : d[i].k = key

DictGet(d, key) == d[CHOOSE i \in 1..Len(d) : d[i].k = key].v

\* a slip: an existing key keeps its value (setdefault)
DictSetDefault(d, key, value) ==
    IF DictHas(d, key) THEN d ELSE Append(d, [k |-> key, v |-> value])

\* a slip: the collection is replaced by the one entry
DictSetAlone(d, key, value) == <<[k |-> key, v |-> value]>>

\* d[key] = value: overwrite in place, or append a new key at the end
DictSet(d, key, value) ==
    IF DictHas(d, key)
    THEN [i \in 1..Len(d) |-> IF d[i].k = key THEN [k |-> key, v |-> value] ELSE d[i]]
    ELSE Append(d, [k |-> key, v |-> value])

\* ------------------------------------------------------------------------
\* The four risk models
\* ------------------------------------------------------------------------
ModelNames == {"max_sharpe", "min_volatility", "efficient_risk", "efficient_return"}

\* ------------------------------------------------------------------------
\* Weight cleaning (EfficientFrontier.clean_weights, cutoff 1e-4, 5 decimals)
\* ------------------------------------------------------------------------
\* raw weight in units of 1e-6 -> cleaned weight in units of 1e-5,
\* numpy rounds half to even
RoundHalfEven(x) ==
    LET q == x \div 10
        r == x % 10
    IN  IF r < 5 THEN q
        ELSE IF r > 5 THEN q + 1
        ELSE IF q % 2 = 0 THEN q ELSE q + 1

CleanOne(w) == IF (IF w < 0 THEN -w ELSE w) < 100 THEN 0 ELSE RoundHalfEven(w)

\* columns: the tickers of the price matrix in column order; raw: a sequence
\* of raw weights of the same length.  The result is the ticker -> weight dict.
clean_weights(columns, raw) ==
    [i \in 1..Len(columns) |-> [k |-> columns[i], v |-> CleanOne(raw[i])]]

\* the raw weight vectors a successful solve may produce, by number of assets
RawWeights(n) ==
    IF n = 1 THEN {<<1000000>>}
    ELSE {<<500000, 500000>>, <<999950, 50>>}

\* ------------------------------------------------------------------------
\* Python values
\* ------------------------------------------------------------------------
None == [py |-> "None"]

PyFloat(x) == [py |-> "float", v |-> x]

PyInt(x) == [py |-> "int", v |-> x]

PyStr(x) == [py |-> "str", v |-> x]

\* a list of strings
PyList(x) == [py |-> "list", v |-> x]

\* NaN, the value of a cell of the price matrix that has no observation
NaN == [py |-> "nan"]

\* f"{x:.3f}" of a value in units of 1e-4: the value in units of 1e-3
Fmt3(x) == RoundHalfEven(x)

\* a diagnostic message: its fixed text and the numbers formatted into it
Message(text, args) == [msg |-> text, args |-> args]

\* ------------------------------------------------------------------------
\* State
\* ------------------------------------------------------------------------
VARIABLES
    pc,                 \* position of the request in execution_loop / prepare_allocation
    asset_symbols,      \* TaskStructure.asset_symbols
    total_investment,   \* TaskStructure.total_investment (dollars)
    target_return,      \* TaskStructure.target_return
    target_volatility,  \* TaskStructure.target_volatility
    columns,            \* columns of the pivoted price matrix
    latest,             \* last row of the price matrix: ticker -> price or NaN
    results,            \* optimize_portfolio: model -> cleaned weights
    failures,           \* optimize_portfolio: key -> diagnostic message
    min_volatility,     \* optimize_portfolio: None or the achieved minimum volatility
    solves,             \* the try blocks run so far: model -> [target, limit, raised]
    allocation,         \* execution_loop: None or the table of prepare_allocation
    allocation_id,      \* execution_loop: None or the id returned by save_allocation
    events,             \* the events yielded by execution_loop so far
    backend,            \* config.s3_enabled: "s3" or "local"
    allocObj,           \* the allocations file / object: [exists, body]
    taskObj,            \* the tasks file / object: [exists, body]
    cpc,                \* per storage client: position in save_allocation
    cid,                \* per storage client: allocation_id argument
    cdata,              \* per storage client: allocation_data argument
    cbuf,               \* per storage client: the collection it loaded
    cret,               \* per storage client: None or the returned id
    cresp,              \* per storage client: the backend's answer to its last read
    qweights,           \* calculate_quantities: the weights argument
    qprices,            \* calculate_quantities: the latest_prices argument
    qinvestment,        \* calculate_quantities: the total_investment argument
    quantities,         \* calculate_quantities: None, the returned dict, or Raised
    messages,           \* request.messages: sequence of [role, content]
    mi,                 \* execution_loop: index of the message the for loop is at
    citations_list,     \* execution_loop: the citations collected so far
    gclock,             \* generate_id: time.time() in milliseconds
    glength,            \* generate_id: the length argument
    gsuffix,            \* generate_id: the characters random.choices returns
    gid,                \* generate_id: None or the returned string
    astart,             \* get_task_data: start_date
    aend,               \* get_task_data: end_date
    aid,                \* get_allocation_data: allocation_id
    arisk,              \* get_allocation_data: risk_model
    amode,              \* get_allocation_data: weights_or_quantities
    aresponse           \* the endpoint's answer: None, a body, or Raised

requestVars == <<asset_symbols, total_investment, target_return, target_volatility>>

priceVars == <<columns, latest>>

optVars == <<results, failures, min_volatility, solves>>

agentVars == <<allocation, allocation_id, events>>

storeVars == <<backend, allocObj, taskObj>>

clientVars == <<cpc, cid, cdata, cbuf, cret, cresp>>

quantityVars == <<qweights, qprices, qinvestment, quantities>>

loopVars == <<messages, mi, citations_list>>

idVars == <<gclock, glength, gsuffix, gid>>

apiVars == <<astart, aend, aid, arisk, amode, aresponse>>

auxVars == <<loopVars, idVars, apiVars>>

vars == <<pc, requestVars, priceVars, optVars, agentVars, storeVars, clientVars, quantityVars, auxVars>>

\* ------------------------------------------------------------------------
\* optimize_portfolio
\* ------------------------------------------------------------------------
\* min_volatility * 1.01
AdjustedVolatility(m) == (m * 101) \div 100

\* max_individual_return * 0.99
AdjustedReturn(c) == (c * 99) \div 100

\* the record of one model's try block: the target passed to the solver, the
\* limit the target was validated against, and whether the block raised
Solve(target, limit, raised) == [target |-> target, limit |-> limit, raised |-> raised]

\* a slip: every failure is recorded under the first model's key
RecordFailureFirstKey(fail, model, message) == DictSet(fail, "max_sharpe", message)

\* failures[model] = message (the except clauses of lines 48-49, 58-59,
\* 74-75, 81-82, 101-102 and 108-109)
RecordFailure(fail, model, message) == DictSet(fail, model, message)

\* lines 44-49: max_sharpe; raw is the solver's weight vector, raised whether
\* max_sharpe() or clean_weights() raised
OptimizeMaxSharpe ==
    /\ pc = "max_sharpe"
    /\ \/ \E raw \in RawWeights(Len(columns)) :
             /\ results' = DictSet(results, "max_sharpe", clean_weights(columns, raw))
             /\ solves' = DictSet(solves, "max_sharpe", Solve(None, None, FALSE))
             /\ UNCHANGED failures
       \/ /\ failures' = RecordFailure(failures, "max_sharpe", Message("Failed: e", << >>))
          /\ solves' = DictSet(solves, "max_sharpe", Solve(None, None, TRUE))
          /\ UNCHANGED results
    /\ pc' = "min_volatility"
    /\ UNCHANGED <<requestVars, priceVars, min_volatility, agentVars, storeVars, clientVars, quantityVars, auxVars>>

\* the achieved volatilities portfolio_performance()[1] may report
VolLevels == {i * 1000 : i \in 0..MaxVolLevel}

\* lines 51-60: min_volatility.  Three ways through the try block: the solve
\* (or clean_weights) raises; the solve succeeds and portfolio_performance
\* reports m; the solve succeeds, results is assigned, and
\* portfolio_performance raises.
OptimizeMinVolatility ==
    /\ pc = "min_volatility"
    /\ \/ \E raw \in RawWeights(Len(columns)), m \in VolLevels :
             /\ results' = DictSet(results, "min_volatility", clean_weights(columns, raw))
             /\ min_volatility' = PyFloat(m)
             /\ solves' = DictSet(solves, "min_volatility", Solve(None, None, FALSE))
             /\ UNCHANGED failures
       \/ /\ failures' = RecordFailure(failures, "min_volatility", Message("Failed: e", << >>))
          /\ min_volatility' = None
          /\ solves' = DictSet(solves, "min_volatility", Solve(None, None, TRUE))
          /\ UNCHANGED results
       \/ \E raw \in RawWeights(Len(columns)) :
             /\ results' = DictSet(results, "min_volatility", clean_weights(columns, raw))
             /\ failures' = RecordFailure(failures, "min_volatility", Message("Failed: e", << >>))
             /\ min_volatility' = None
             /\ solves' = DictSet(solves, "min_volatility", Solve(None, None, TRUE))
    /\ pc' = "efficient_risk"
    /\ UNCHANGED <<requestVars, priceVars, agentVars, storeVars, clientVars, quantityVars, auxVars>>

\* line 64 and 66: the target efficient_risk is solved at
RiskTarget(target, m) == IF target <= m THEN AdjustedVolatility(m) ELSE target

\* lines 71-73
RiskNote(target, adjusted) ==
    Message("Target volatility adjusted from {} to {} (minimum possible)",
            <<Fmt3(target), Fmt3(adjusted)>>)

\* a slip: the else branch records nothing
RiskUnvalidatedDropped(fail) == fail

\* a slip: the else branch records the message of a failed solve
RiskUnvalidatedAsFailed(fail) ==
    DictSet(fail, "efficient_risk", Message("Failed: e", << >>))

\* lines 84-86: no minimum volatility to validate against
RiskUnvalidated(fail) ==
    DictSet(fail, "efficient_risk",
            Message("Cannot validate - min volatility calculation failed", << >>))

\* lines 62-86: efficient_risk
OptimizeEfficientRisk ==
    /\ pc = "efficient_risk"
    /\ IF min_volatility # None
       THEN LET m == min_volatility.v
                adjust == target_volatility <= m
                target == RiskTarget(target_volatility, m)
            IN  \/ \E raw \in RawWeights(Len(columns)) :
                      /\ results' = DictSet(results, "efficient_risk",
                                            clean_weights(columns, raw))
                      /\ failures' = IF adjust
                                     THEN DictSet(failures, "efficient_risk_note",
                                                  RiskNote(target_volatility, target))
                                     ELSE failures
                      /\ solves' = DictSet(solves, "efficient_risk", Solve(PyFloat(target), PyFloat(m), FALSE))
                \/ /\ failures' = RecordFailure(failures, "efficient_risk",
                                          IF adjust
                                          THEN Message("Failed even with adjustment: e", << >>)
                                          ELSE Message("Failed: e", << >>))
                   /\ solves' = DictSet(solves, "efficient_risk", Solve(PyFloat(target), PyFloat(m), TRUE))
                   /\ UNCHANGED results
       ELSE /\ failures' = RiskUnvalidated(failures)
            /\ UNCHANGED <<results, solves>>
    /\ pc' = "efficient_return"
    /\ UNCHANGED <<requestVars, priceVars, min_volatility, agentVars, storeVars, clientVars, quantityVars, auxVars>>

\* the values mu.max() may take
RetLevels == {i * 1000 : i \in (0 - MaxRetLevel)..MaxRetLevel}

\* lines 91 and 93: the target efficient_return is solved at
ReturnTarget(target, c) == IF target >= c THEN AdjustedReturn(c) ELSE target

\* lines 98-100
ReturnNote(target, adjusted) ==
    Message("Target return adjusted from {} to {} (maximum possible)",
            <<Fmt3(target), Fmt3(adjusted)>>)

\* lines 88-109: efficient_return; c is max_individual_return = mu.max()
OptimizeEfficientReturn ==
    /\ pc = "efficient_return"
    /\ \E c \in RetLevels :
          LET adjust == target_return >= c
              target == ReturnTarget(target_return, c)
          IN  \/ \E raw \in RawWeights(Len(columns)) :
                    /\ results' = DictSet(results, "efficient_return",
                                          clean_weights(columns, raw))
                    /\ failures' = IF adjust
                                   THEN DictSet(failures, "efficient_return_note",
                                                ReturnNote(target_return, target))
                                   ELSE failures
                    /\ solves' = DictSet(solves, "efficient_return",
                                         Solve(PyFloat(target), PyFloat(c), FALSE))
              \/ /\ failures' = RecordFailure(failures, "efficient_return",
                                        IF adjust
                                        THEN Message("Failed even with adjustment: e", << >>)
                                        ELSE Message("Failed: e", << >>))
                 /\ solves' = DictSet(solves, "efficient_return",
                                      Solve(PyFloat(target), PyFloat(c), TRUE))
                 /\ UNCHANGED results
    /\ pc' = "latest_prices"
    /\ UNCHANGED <<requestVars, priceVars, min_volatility, agentVars, storeVars, clientVars, quantityVars, auxVars>>

\* ------------------------------------------------------------------------
\* calculate_quantities
\* ------------------------------------------------------------------------
\* latest_prices[ticker] raises KeyError, or the floor division yields NaN
\* (int(nan) raises ValueError) or divides by zero
QuantityRaises(ticker, latest_prices) ==
    \/ ~DictHas(latest_prices, ticker)
    \/ DictGet(latest_prices, ticker) = NaN
    \/ DictGet(latest_prices, ticker).v = 0

\* a slip: the quotient rounded to the nearest integer
QuantityNearest(weight, price, investment) == (2 * investment * weight + price) \div (2 * price)

\* int((total_investment * weight) // price): weight in 1e-5, price in
\* cents, investment in thousands of dollars, so the quotient of the two
\* dollar amounts is (T * w) / p; // is the floor, \div too
Quantity(weight, price, investment) == (investment * weight) \div price

\* lines 118-122; defined where no ticker raises
calculate_quantities(weights, latest_prices, investment) ==
    [i \in 1..Len(weights) |->
        [k |-> weights[i].k,
         v |-> Quantity(weights[i].v, DictGet(latest_prices, weights[i].k).v, investment)]]

calculate_quantities_raises(weights, latest_prices) ==
    \E i \in 1..Len(weights) : QuantityRaises(weights[i].k, latest_prices)

\* ------------------------------------------------------------------------
\* prepare_allocation
\* ------------------------------------------------------------------------
\* the matrices the provider's data may pivot to: their columns ...
ColumnChoices == {<<"AAPL", "GOOG">>, <<"AAPL">>}

\* ... and the last observation of a ticker (cents)
LastPrice(ticker) == IF ticker = "AAPL" THEN PyFloat(15000) ELSE PyFloat(280000)

\* the last row: complete, or without an observation for the last column
LatestChoices(cols) ==
    {[i \in 1..Len(cols) |->
        [k |-> cols[i], v |-> IF cols[i] \in missing THEN NaN ELSE LastPrice(cols[i])]] :
        missing \in {{}, {cols[Len(cols)]}}}

\* lines 139-155: fetch_historical_prices and the pivot; the provider call
\* may raise
FetchHistoricalPrices ==
    /\ pc = "fetch"
    /\ \/ \E cols \in ColumnChoices : \E last \in LatestChoices(cols) :
             /\ columns' = cols
             /\ latest' = last
             /\ pc' = "max_sharpe"
       \/ /\ pc' = "raised"
          /\ UNCHANGED priceVars
    /\ UNCHANGED <<requestVars, optVars, agentVars, storeVars, clientVars, quantityVars, auxVars>>

\* line 182: prices[symbol] raises KeyError for a symbol that is no column
LatestPricesRaises(symbols, cols) ==
    \E i \in 1..Len(symbols) : \A j \in 1..Len(cols) : cols[j] # symbols[i]

LatestPrices(symbols, last) ==
    [i \in 1..Len(symbols) |-> [k |-> symbols[i], v |-> DictGet(last, symbols[i])]]

\* one row of the table
Row(model, ticker, weight, quantity, note) ==
    [RiskModel |-> model, Ticker |-> ticker, Weight |-> weight,
     Quantity |-> quantity, Note |-> note]

\* lines 190-199: the rows of one model with weights
WeightRows(model, weights, qty) ==
    [i \in 1..Len(weights) |->
        Row(PyStr(model), PyStr(weights[i].k), PyFloat(weights[i].v),
            PyInt(DictGet(qty, weights[i].k)), None)]

\* a slip: the sentinel row without a quantity
FailureRowNoQuantity(key, message) == Row(PyStr(key), PyStr("N/A"), PyFloat(0), None, PyStr(message))

\* lines 203-211: the row of one entry of failures
FailureRow(key, message) == Row(PyStr(key), PyStr("N/A"), PyFloat(0), PyInt(0), PyStr(message))

RECURSIVE ResultRows(_, _, _)
\* lines 186-199
ResultRows(res, latest_prices, investment) ==
    IF res = << >> THEN << >>
    ELSE WeightRows(Head(res).k, Head(res).v,
                    calculate_quantities(Head(res).v, latest_prices, investment))
         \o ResultRows(Tail(res), latest_prices, investment)

IsModelEntry(entry) == entry.k \in ModelNames

\* a slip: only entries keyed by a model name get a row
FailureRowsModelsOnly(fail) ==
    [i \in 1..Len(SelectSeq(fail, IsModelEntry)) |->
        FailureRow(SelectSeq(fail, IsModelEntry)[i].k, SelectSeq(fail, IsModelEntry)[i].v)]

\* lines 202-211
FailureRows(fail) == [i \in 1..Len(fail) |-> FailureRow(fail[i].k, fail[i].v)]

\* a slip: the failure rows are forgotten
TableWeightsOnly(res, fail, latest_prices, investment) ==
    ResultRows(res, latest_prices, investment)

\* lines 184-213
Table(res, fail, latest_prices, investment) ==
    ResultRows(res, latest_prices, investment) \o FailureRows(fail)

\* lines 181-213: latest prices, quantities and the table; raises when a
\* requested symbol has no column or a quantity cannot be computed
ComposeAllocation ==
    /\ pc = "latest_prices"
    /\ IF LatestPricesRaises(asset_symbols, columns)
       THEN /\ pc' = "raised"
            /\ UNCHANGED allocation
       ELSE LET latest_prices == LatestPrices(asset_symbols, latest)
            IN  IF \E i \in 1..Len(results) :
                       calculate_quantities_raises(results[i].v, latest_prices)
                THEN /\ pc' = "raised"
                     /\ UNCHANGED allocation
                ELSE /\ allocation' = Table(results, failures, latest_prices, total_investment)
                     /\ pc' = "returned"
    /\ UNCHANGED <<requestVars, priceVars, optVars, allocation_id, events, storeVars, clientVars, quantityVars, auxVars>>

\* ------------------------------------------------------------------------
\* JSON (json.dump / json.load of the stored collections)
\* ------------------------------------------------------------------------
\* a Python scalar as a JSON token
JsonDumpValue(pv) ==
    CASE pv.py = "None"  -> [js |-> "null"]
      [] pv.py = "nan"   -> [js |-> "NaN"]
      [] pv.py = "int"   -> [js |-> "number", point |-> FALSE, v |-> pv.v]
      [] pv.py = "float" -> [js |-> "number", point |-> TRUE, v |-> pv.v]
      [] pv.py = "str"   -> [js |-> "string", v |-> pv.v]
      [] pv.py = "list"  -> [js |-> "array", v |-> pv.v]

\* a JSON token as a Python scalar: a number with a decimal point is a float
JsonLoadValue(jv) ==
    CASE jv.js = "null"   -> None
      [] jv.js = "NaN"    -> NaN
      [] jv.js = "number" -> IF jv.point THEN PyFloat(jv.v) ELSE PyInt(jv.v)
      [] jv.js = "string" -> PyStr(jv.v)
      [] jv.js = "array"  -> PyList(jv.v)

\* a list of row dicts <-> a JSON array of objects
JsonDumpRows(rows) ==
    [i \in 1..Len(rows) |-> [f \in DOMAIN rows[i] |-> JsonDumpValue(rows[i][f])]]

JsonLoadRows(arr) ==
    [i \in 1..Len(arr) |-> [f \in DOMAIN arr[i] |-> JsonLoadValue(arr[i][f])]]

\* the allocations collection {id: rows} <-> the JSON text of the document
JsonDumpAllocations(d) == [i \in 1..Len(d) |-> [k |-> d[i].k, v |-> JsonDumpRows(d[i].v)]]

JsonLoadAllocations(body) ==
    [i \in 1..Len(body) |-> [k |-> body[i].k, v |-> JsonLoadRows(body[i].v)]]

\* the tasks collection {id: task} <-> the JSON text of the document
JsonDumpTasks(d) ==
    [i \in 1..Len(d) |-> [k |-> d[i].k, v |-> [f \in DOMAIN d[i].v |-> JsonDumpValue(d[i].v[f])]]]

JsonLoadTasks(body) ==
    [i \in 1..Len(body) |-> [k |-> body[i].k, v |-> [f \in DOMAIN body[i].v |-> JsonLoadValue(body[i].v[f])]]]

\* ------------------------------------------------------------------------
\* LocalFileStorage / CloudObjectStorage
\* ------------------------------------------------------------------------
\* a file or object of the backend: absent, or present with a JSON body
Absent == [exists |-> FALSE, body |-> << >>]

Present(body) == [exists |-> TRUE, body |-> body]

Backends == {"local", "s3"}

\* what the backend answers to a read of the file / object
Response(code, body) == [code |-> code, body |-> body]

\* s3.get_object (lines 64, 84) of a backend that works: the body, or the
\* ClientError NoSuchKey for an absent key
GetObject(obj) ==
    IF obj.exists THEN Response("ok", obj.body) ELSE Response("NoSuchKey", << >>)

\* os.path.exists and open (lines 24-27, 36-39) of a file system that works
OpenFile(obj) ==
    IF obj.exists THEN Response("ok", obj.body) ELSE Response("absent", << >>)

\* every answer of the object store: also a ClientError other than NoSuchKey
CloudResponses(obj) == {GetObject(obj), Response("AccessDenied", << >>)}

\* every answer of the file system: a file that exists may fail to open or
\* to parse; a path that does not exist is never opened
LocalResponses(obj) ==
    IF obj.exists THEN {OpenFile(obj), Response("OSError", << >>)} ELSE {OpenFile(obj)}

StorageResponses(b, obj) == IF b = "s3" THEN CloudResponses(obj) ELSE LocalResponses(obj)

\* a slip: every ClientError is answered with {}
CloudLoadRaisesNever(resp) == FALSE

\* a slip: NoSuchKey is re-raised like any other ClientError
CloudLoadRaisesAlways(resp) == resp.code # "ok"

\* lines 68-71 and 86-89: NoSuchKey is answered with {}, anything else re-raised
CloudLoadRaises(resp) == resp.code \notin {"ok", "NoSuchKey"}

\* lines 24-27 and 36-39: no except clause, an error of open or json.load propagates
LocalLoadRaises(resp) == resp.code \notin {"ok", "absent"}

StorageLoadRaises(b, resp) == IF b = "s3" THEN CloudLoadRaises(resp) ELSE LocalLoadRaises(resp)

\* the collection a load returns when it does not raise
LoadAllocationsFrom(resp) ==
    IF resp.code = "ok" THEN JsonLoadAllocations(resp.body) ELSE EmptyDict

LoadTasksFrom(resp) ==
    IF resp.code = "ok" THEN JsonLoadTasks(resp.body) ELSE EmptyDict

\* LocalFileStorage.load_allocations (lines 22-27): os.path.exists, json.load
LocalLoadAllocations(obj) == LoadAllocationsFrom(OpenFile(obj))

\* CloudObjectStorage.load_allocations (lines 61-71): get_object raises
\* NoSuchKey for an absent key, which is answered with {}
CloudLoadAllocations(obj) == LoadAllocationsFrom(GetObject(obj))

\* storage.load_allocations() of the configured backend
StorageLoadAllocations(b, obj) ==
    IF b = "s3" THEN CloudLoadAllocations(obj) ELSE LocalLoadAllocations(obj)

\* storage.save_allocations(allocations): the whole document is rewritten
StorageSaveAllocations(b, allocations) == Present(JsonDumpAllocations(allocations))

LocalLoadTasks(obj) == LoadTasksFrom(OpenFile(obj))

CloudLoadTasks(obj) == LoadTasksFrom(GetObject(obj))

StorageLoadTasks(b, obj) == IF b = "s3" THEN CloudLoadTasks(obj) ELSE LocalLoadTasks(obj)

StorageSaveTasks(b, tasks) == Present(JsonDumpTasks(tasks))

\* load_allocations() (lines 126-129)
load_allocations(b, obj) == StorageLoadAllocations(b, obj)

\* load_tasks() (lines 132-135)
load_tasks(b, obj) == StorageLoadTasks(b, obj)

\* save_allocation (lines 117-123) run without interruption: the object after it
save_allocation(b, obj, id, data) ==
    StorageSaveAllocations(b, DictSet(StorageLoadAllocations(b, obj), id, data))

\* save_task (lines 108-114) run without interruption: the object after it
save_task(b, obj, id, task) ==
    StorageSaveTasks(b, DictSet(StorageLoadTasks(b, obj), id, task))

\* ------------------------------------------------------------------------
\* execution_loop
\* ------------------------------------------------------------------------
\* reasoning_step(message=...), reasoning_step(event_type="ERROR", ...)
Step(message) == [event |-> "status", eventType |-> "INFO", message |-> message]

ErrorStep(message) == [event |-> "status", eventType |-> "ERROR", message |-> message]

\* table(data=..., name=f"Allocation {allocation_id}", ...)
TableArtifact(id, data) == [event |-> "table", name |-> id, data |-> data]

MessageChunk == [event |-> "message_chunk"]

Citations(id) == [event |-> "citations", allocation_id |-> id]

\* the ids generate_id may return, and the days date.today() may report
Ids == {"a1", "b2"}

Dates == {"2026-01-01"}

\* lines 160-163: the task record that is saved
TaskToSave(symbols, investment, ret, vol, day) ==
    [asset_symbols |-> PyList(symbols), total_investment |-> PyInt(investment),
     target_return |-> PyFloat(ret), target_volatility |-> PyFloat(vol),
     date |-> PyStr(day)]

\* lines 96-131: the last human message; the intent check decides whether an
\* allocation is prepared
AgentStart ==
    /\ pc = "request"
    /\ \/ /\ events' = events \o <<Step("Starting asset basket allocation..."),
                                   Step("Task structure:"),
                                   Step("Fetching historical prices...")>>
          /\ pc' = "fetch"
       \/ /\ pc' = "llm"
          /\ UNCHANGED events
    /\ UNCHANGED <<requestVars, priceVars, optVars, allocation, allocation_id, storeVars, clientVars, quantityVars, auxVars>>

\* a slip: the exception is swallowed without an event
AgentPrepareErrorSilent ==
    /\ pc = "raised"
    /\ pc' = "llm"
    /\ UNCHANGED <<requestVars, priceVars, optVars, agentVars, storeVars, clientVars, quantityVars, auxVars>>

\* lines 137-147: prepare_allocation raised
AgentPrepareError ==
    /\ pc = "raised"
    /\ events' = Append(events, ErrorStep("Error preparing allocation."))
    /\ pc' = "llm"
    /\ UNCHANGED <<requestVars, priceVars, optVars, allocation, allocation_id, storeVars, clientVars, quantityVars, auxVars>>

\* lines 149-158 (and 214-218): the status step, generate_id and
\* save_allocation, which returns the id or raises
AgentSaveAllocation ==
    /\ pc = "returned"
    /\ allocation # None
    /\ \/ \E id \in Ids :
             /\ allocObj' = save_allocation(backend, allocObj, id, allocation)
             /\ allocation_id' = PyStr(id)
             /\ events' = Append(events, Step("Basket weights optimized. Saving task and results..."))
             /\ pc' = "save_task"
       \/ /\ events' = events \o <<Step("Basket weights optimized. Saving task and results..."),
                                   ErrorStep("Error saving allocation.")>>
          /\ pc' = "llm"
          /\ UNCHANGED <<allocObj, allocation_id>>
    /\ UNCHANGED <<requestVars, priceVars, optVars, allocation, backend, taskObj, clientVars, quantityVars, auxVars>>

\* a slip: a failed save_task is reported and the loop goes on to the table
AgentSaveTaskFailOpen ==
    /\ pc = "save_task"
    /\ \/ \E day \in Dates :
             /\ taskObj' = save_task(backend, taskObj, allocation_id.v,
                                     TaskToSave(asset_symbols, total_investment,
                                                target_return, target_volatility, day))
             /\ UNCHANGED events
       \/ /\ events' = Append(events, ErrorStep("Error saving allocation."))
          /\ UNCHANGED taskObj
    /\ pc' = "emit_table"
    /\ UNCHANGED <<requestVars, priceVars, optVars, allocation, allocation_id, backend, allocObj, clientVars, quantityVars, auxVars>>

\* lines 160-167 (and 214-218): save_task under the id of the allocation
AgentSaveTask ==
    /\ pc = "save_task"
    /\ \/ \E day \in Dates :
             /\ taskObj' = save_task(backend, taskObj, allocation_id.v,
                                     TaskToSave(asset_symbols, total_investment,
                                                target_return, target_volatility, day))
             /\ pc' = "emit_table"
             /\ UNCHANGED events
       \/ /\ events' = Append(events, ErrorStep("Error saving allocation."))
          /\ pc' = "llm"
          /\ UNCHANGED taskObj
    /\ UNCHANGED <<requestVars, priceVars, optVars, allocation, allocation_id, backend, allocObj, clientVars, quantityVars, auxVars>>

\* lines 169-218: the saved step and the table artifact, then the summary for
\* the LLM (allocation.to_markdown()) and the citation objects; these
\* statements are inside the same try block as the saves, so an exception
\* of theirs is answered by the except clause of lines 214-218
AgentEmitTable ==
    /\ pc = "emit_table"
    /\ \/ /\ events' = events \o <<Step("Allocation saved successfully."),
                                   TableArtifact(allocation_id.v, allocation)>>
          /\ pc' = "cite"
       \/ /\ events' = events \o <<Step("Allocation saved successfully."),
                                   TableArtifact(allocation_id.v, allocation),
                                   ErrorStep("Error saving allocation.")>>
          /\ pc' = "llm"
    /\ UNCHANGED <<requestVars, priceVars, optVars, allocation, allocation_id, storeVars, clientVars, quantityVars, auxVars>>

\* a slip: the citations are yielded whether or not an allocation was saved
AgentLlmCitesAlways ==
    /\ pc \in {"llm", "cite"}
    /\ events' = events \o <<MessageChunk, Citations("none")>>
    /\ pc' = "done"
    /\ UNCHANGED <<requestVars, priceVars, optVars, allocation, allocation_id, storeVars, clientVars, quantityVars, auxVars>>

\* lines 219-228: the LLM's answer, then the citations if an allocation was
\* saved; the call of the LLM is outside every try block, so its exception
\* ends the stream
AgentLlm ==
    /\ pc \in {"llm", "cite"}
    /\ \/ /\ events' = IF pc = "cite"
                       THEN events \o <<MessageChunk, Citations(allocation_id.v)>>
                       ELSE Append(events, MessageChunk)
          /\ pc' = "done"
       \/ /\ pc' = "failed"
          /\ UNCHANGED events
    /\ UNCHANGED <<requestVars, priceVars, optVars, allocation, allocation_id, storeVars, clientVars, quantityVars, auxVars>>

\* ------------------------------------------------------------------------
\* Storage clients: save_allocation called from several processes
\* ------------------------------------------------------------------------
Clients == 1..MaxClients

\* the row lists a client saves
ClientRows ==
    {<<Row(PyStr("max_sharpe"), PyStr("AAPL"), PyFloat(100000), PyInt(666), None),
       FailureRow("efficient_risk", Message("Failed: e", << >>))>>}

\* the id generate_id hands to a client: clients 1 and 2 draw different ids,
\* a third client draws the id of the first
ClientIds(p) == IF p % 2 = 1 THEN {"a1"} ELSE {"b2"}

\* the task record a client saves
ClientTask == TaskToSave(<<"AAPL">>, 100, 500, 1500, "2026-01-01")

\* save_allocation(allocation_id, allocation_data) is called
ClientCall(p) ==
    /\ cpc[p] = "idle"
    /\ \E id \in ClientIds(p), data \in ClientRows :
          /\ cid' = [cid EXCEPT ![p] = id]
          /\ cdata' = [cdata EXCEPT ![p] = data]
    /\ cpc' = [cpc EXCEPT ![p] = "called"]
    /\ UNCHANGED <<pc, requestVars, priceVars, optVars, agentVars, storeVars, cbuf, cret, cresp, quantityVars, auxVars>>

\* lines 119-120: storage.load_allocations(); an answer of the backend other
\* than the body or key-not-found propagates as an exception
ClientLoad(p) ==
    /\ cpc[p] = "called"
    /\ \E resp \in StorageResponses(backend, allocObj) :
          /\ cresp' = [cresp EXCEPT ![p] = resp.code]
          /\ IF StorageLoadRaises(backend, resp)
             THEN /\ cpc' = [cpc EXCEPT ![p] = "raised"]
                  /\ UNCHANGED cbuf
             ELSE /\ cbuf' = [cbuf EXCEPT ![p] = LoadAllocationsFrom(resp)]
                  /\ cpc' = [cpc EXCEPT ![p] = "loaded"]
    /\ UNCHANGED <<pc, requestVars, priceVars, optVars, agentVars, storeVars, cid, cdata, cret, quantityVars, auxVars>>

\* a slip: the write merges into the collection as it is stored now
ClientWriteMerged(p) ==
    /\ cpc[p] = "loaded"
    /\ allocObj' = StorageSaveAllocations(backend,
                       DictSet(StorageLoadAllocations(backend, allocObj), cid[p], cdata[p]))
    /\ cret' = [cret EXCEPT ![p] = PyStr(cid[p])]
    /\ cpc' = [cpc EXCEPT ![p] = "returned"]
    /\ cbuf' = [cbuf EXCEPT ![p] = EmptyDict]
    /\ UNCHANGED <<pc, requestVars, priceVars, optVars, agentVars, backend, taskObj, cid, cdata, cresp, quantityVars, auxVars>>

\* lines 121-123: the assignment, storage.save_allocations() and the return
ClientWrite(p) ==
    /\ cpc[p] = "loaded"
    /\ \/ /\ allocObj' = StorageSaveAllocations(backend, DictSet(cbuf[p], cid[p], cdata[p]))
          /\ cret' = [cret EXCEPT ![p] = PyStr(cid[p])]
          /\ cpc' = [cpc EXCEPT ![p] = "returned"]
       \/ /\ cpc' = [cpc EXCEPT ![p] = "raised"]
          /\ UNCHANGED <<allocObj, cret>>
    /\ cbuf' = [cbuf EXCEPT ![p] = EmptyDict]
    /\ UNCHANGED <<pc, requestVars, priceVars, optVars, agentVars, backend, taskObj, cid, cdata, cresp, quantityVars, auxVars>>

\* agent.py lines 160-167: the caller goes on to save_task under the id that
\* save_allocation returned
ClientCallTask(p) ==
    /\ cpc[p] = "returned"
    /\ cpc' = [cpc EXCEPT ![p] = "task_called"]
    /\ UNCHANGED <<pc, requestVars, priceVars, optVars, agentVars, storeVars, cid, cdata, cbuf, cret, cresp, quantityVars, auxVars>>

\* lines 110-111: storage.load_tasks()
ClientLoadTask(p) ==
    /\ cpc[p] = "task_called"
    /\ \E resp \in StorageResponses(backend, taskObj) :
          /\ cresp' = [cresp EXCEPT ![p] = resp.code]
          /\ IF StorageLoadRaises(backend, resp)
             THEN /\ cpc' = [cpc EXCEPT ![p] = "raised"]
                  /\ UNCHANGED cbuf
             ELSE /\ cbuf' = [cbuf EXCEPT ![p] = LoadTasksFrom(resp)]
                  /\ cpc' = [cpc EXCEPT ![p] = "task_loaded"]
    /\ UNCHANGED <<pc, requestVars, priceVars, optVars, agentVars, storeVars, cid, cdata, cret, quantityVars, auxVars>>

\* lines 112-114: the assignment, storage.save_tasks() and the return
ClientWriteTask(p) ==
    /\ cpc[p] = "task_loaded"
    /\ \/ /\ taskObj' = StorageSaveTasks(backend, DictSet(cbuf[p], cid[p], ClientTask))
          /\ cpc' = [cpc EXCEPT ![p] = "task_returned"]
       \/ /\ cpc' = [cpc EXCEPT ![p] = "raised"]
          /\ UNCHANGED taskObj
    /\ cbuf' = [cbuf EXCEPT ![p] = EmptyDict]
    /\ UNCHANGED <<pc, requestVars, priceVars, optVars, agentVars, backend, allocObj, cid, cdata, cret, cresp, quantityVars, auxVars>>

\* the caller goes on to its next call
ClientDone(p) ==
    /\ cpc[p] \in {"returned", "task_returned", "raised"}
    /\ cpc' = [cpc EXCEPT ![p] = "idle"]
    /\ cid' = [cid EXCEPT ![p] = "a1"]
    /\ cdata' = [cdata EXCEPT ![p] = << >>]
    /\ cret' = [cret EXCEPT ![p] = None]
    /\ cresp' = [cresp EXCEPT ![p] = "none"]
    /\ UNCHANGED <<pc, requestVars, priceVars, optVars, agentVars, storeVars, cbuf, quantityVars, auxVars>>

\* ------------------------------------------------------------------------
\* Specifications
\* ------------------------------------------------------------------------
SymbolChoices == {<<"AAPL", "GOOG">>, <<"AAPL">>}

InvestmentChoices == {100}

TargetVolatilities == {i * 1500 : i \in 0..MaxTargetLevel}

TargetReturns == {i * 500 : i \in 0..MaxTargetLevel}

\* the allocations document before the request: none, or one earlier record
ExistingRows == <<Row(PyStr("min_volatility"), PyStr("GOOG"), PyFloat(100000), PyInt(3), None)>>

InitialObjects == {Absent, Present(JsonDumpAllocations(<<[k |-> "a1", v |-> ExistingRows]>>))}

InitClients ==
    /\ cpc = [p \in Clients |-> "idle"]
    /\ cid = [p \in Clients |-> "a1"]
    /\ cdata = [p \in Clients |-> << >>]
    /\ cbuf = [p \in Clients |-> EmptyDict]
    /\ cret = [p \in Clients |-> None]
    /\ cresp = [p \in Clients |-> "none"]

InitQuantities ==
    /\ qweights = EmptyDict
    /\ qprices = EmptyDict
    /\ qinvestment = 0
    /\ quantities = None

\* no message loop, generate_id call or endpoint call is under way
InitLoop ==
    /\ messages = << >>
    /\ mi = 1
    /\ citations_list = << >>

InitIds ==
    /\ gclock = 0
    /\ glength = 0
    /\ gsuffix = << >>
    /\ gid = None

InitApi ==
    /\ astart = None
    /\ aend = None
    /\ aid = None
    /\ arisk = None
    /\ amode = "weights"
    /\ aresponse = None

InitRequest ==
    /\ pc = "request"
    /\ columns = << >>
    /\ latest = EmptyDict
    /\ results = EmptyDict
    /\ failures = EmptyDict
    /\ min_volatility = None
    /\ solves = EmptyDict
    /\ allocation = None
    /\ allocation_id = None
    /\ events = << >>

\* one request served by execution_loop
Init ==
    /\ InitRequest
    /\ asset_symbols \in SymbolChoices
    /\ total_investment \in InvestmentChoices
    /\ target_return \in TargetReturns
    /\ target_volatility \in TargetVolatilities
    /\ backend \in Backends
    /\ allocObj = Absent
    /\ taskObj = Absent
    /\ InitClients
    /\ InitQuantities
    /\ InitLoop
    /\ InitIds
    /\ InitApi

Next ==
    \/ AgentStart
    \/ FetchHistoricalPrices
    \/ OptimizeMaxSharpe
    \/ OptimizeMinVolatility
    \/ OptimizeEfficientRisk
    \/ OptimizeEfficientReturn
    \/ ComposeAllocation
    \/ AgentPrepareError
    \/ AgentSaveAllocation
    \/ AgentSaveTask
    \/ AgentEmitTable
    \/ AgentLlm

Spec == Init /\ [][Next]_vars

\* save_allocation called by concurrent clients of one backend
InitStore ==
    /\ InitRequest
    /\ asset_symbols = <<"AAPL">>
    /\ total_investment = 0
    /\ target_return = 0
    /\ target_volatility = 0
    /\ backend \in Backends
    /\ allocObj \in InitialObjects
    /\ taskObj = Absent
    /\ InitClients
    /\ InitQuantities
    /\ InitLoop
    /\ InitIds
    /\ InitApi

NextStore ==
    \E p \in Clients :
        \/ ClientCall(p)
        \/ ClientLoad(p)
        \/ ClientWrite(p)
        \/ ClientCallTask(p)
        \/ ClientLoadTask(p)
        \/ ClientWriteTask(p)
        \/ ClientDone(p)

SpecStore == InitStore /\ [][NextStore]_vars

\* calculate_quantities applied to bounded inputs
WeightLevels == {i * 25000 : i \in 0..MaxWeightLevel} \cup {33333}

PriceChoices == {PyFloat(1), PyFloat(15000), PyFloat(280000), NaN}

InvestmentLevels == (0..MaxInvestment) \cup {100}

Raised == [py |-> "raised"]

InitCalc ==
    /\ InitRequest
    /\ asset_symbols = <<"AAPL">>
    /\ total_investment = 0
    /\ target_return = 0
    /\ target_volatility = 0
    /\ backend = "local"
    /\ allocObj = Absent
    /\ taskObj = Absent
    /\ InitClients
    /\ \E w1 \in WeightLevels, w2 \in WeightLevels :
          qweights = <<[k |-> "AAPL", v |-> w1], [k |-> "GOOG", v |-> w2]>>
    /\ \E p1 \in PriceChoices, p2 \in PriceChoices :
          qprices = <<[k |-> "AAPL", v |-> p1], [k |-> "GOOG", v |-> p2]>>
    /\ qinvestment \in InvestmentLevels
    /\ quantities = None
    /\ InitLoop
    /\ InitIds
    /\ InitApi

\* portfolio.py lines 114-122
CalculateQuantities ==
    /\ quantities = None
    /\ quantities' = IF calculate_quantities_raises(qweights, qprices)
                     THEN Raised
                     ELSE calculate_quantities(qweights, qprices, qinvestment)
    /\ UNCHANGED <<pc, requestVars, priceVars, optVars, agentVars, storeVars, clientVars,
                   qweights, qprices, qinvestment, auxVars>>

NextCalc == CalculateQuantities

SpecCalc == InitCalc /\ [][NextCalc]_vars

\* ------------------------------------------------------------------------
\* The message loop of execution_loop (agent.py lines 96-228)
\* ------------------------------------------------------------------------
LlmMessage(role, content) == [role |-> role, content |-> content]

IsHuman(message) == message.role = "human"

\* utils.py lines 42-45: the message is compared with the last human message
\* by value (equality of the pydantic models, role and content)
is_last_message(message, msgs) ==
    LET human_messages == SelectSeq(msgs, IsHuman)
    IN  IF human_messages # << >>
        THEN message = human_messages[Len(human_messages)]
        ELSE FALSE

\* the messages a request may hold
MessageChoices ==
    {LlmMessage("human", "allocate"), LlmMessage("human", "thanks"), LlmMessage("ai", "done")}

\* the tables prepare_allocation returns to the loop
PreparedTables == ClientRows

\* lines 96-131: one step of the for loop up to the call of
\* prepare_allocation; _need_to_allocate_portfolio answers either way
LoopMessage ==
    /\ pc = "loop"
    /\ mi <= Len(messages)
    /\ \/ /\ IsHuman(messages[mi])
          /\ is_last_message(messages[mi], messages)
          /\ events' = events \o <<Step("Starting asset basket allocation..."),
                                   Step("Task structure:"),
                                   Step("Fetching historical prices...")>>
          /\ allocation' = None
          /\ pc' = "prepare"
          /\ UNCHANGED mi
       \/ /\ mi' = mi + 1
          /\ UNCHANGED <<pc, events, allocation>>
    /\ UNCHANGED <<requestVars, priceVars, optVars, allocation_id, storeVars, clientVars,
                   quantityVars, messages, citations_list, idVars, apiVars>>

\* lines 133-136: prepare_allocation returns a table or raises
LoopPrepare ==
    /\ pc = "prepare"
    /\ \/ /\ allocation' \in PreparedTables
          /\ pc' = "returned"
       \/ /\ pc' = "raised"
          /\ UNCHANGED allocation
    /\ UNCHANGED <<requestVars, priceVars, optVars, allocation_id, events, storeVars, clientVars,
                   quantityVars, auxVars>>

\* lines 192-213 and the end of the loop body: the citations are assigned
\* when the try block ran to its end; the for loop goes on to the next message
LoopContinue ==
    /\ pc \in {"llm", "cite"}
    /\ messages # << >>
    /\ citations_list' = IF pc = "cite" THEN <<allocation_id.v>> ELSE citations_list
    /\ mi' = mi + 1
    /\ pc' = "loop"
    /\ UNCHANGED <<requestVars, priceVars, optVars, agentVars, storeVars, clientVars,
                   quantityVars, messages, idVars, apiVars>>

\* lines 219-228: after the loop the LLM answers, then the citations follow
\* if there are any; an exception of the LLM call ends the stream
LoopEnd ==
    /\ pc = "loop"
    /\ mi > Len(messages)
    /\ \/ /\ events' = IF citations_list # << >>
                       THEN events \o <<MessageChunk, Citations(citations_list[1])>>
                       ELSE Append(events, MessageChunk)
          /\ pc' = "done"
       \/ /\ pc' = "failed"
          /\ UNCHANGED events
    /\ UNCHANGED <<requestVars, priceVars, optVars, allocation, allocation_id, storeVars,
                   clientVars, quantityVars, auxVars>>

InitMessages ==
    /\ pc = "loop"
    /\ columns = << >>
    /\ latest = EmptyDict
    /\ results = EmptyDict
    /\ failures = EmptyDict
    /\ min_volatility = None
    /\ solves = EmptyDict
    /\ allocation = None
    /\ allocation_id = None
    /\ events = << >>
    /\ asset_symbols = <<"AAPL">>
    /\ total_investment = 100
    /\ target_return = 500
    /\ target_volatility = 1500
    /\ backend \in Backends
    /\ allocObj = Absent
    /\ taskObj = Absent
    /\ InitClients
    /\ InitQuantities
    /\ InitIds
    /\ InitApi
    /\ messages \in UNION {[1..n -> MessageChoices] : n \in 1..MaxMessages}
    /\ mi = 1
    /\ citations_list = << >>

NextLoop ==
    \/ LoopMessage
    \/ LoopPrepare
    \/ AgentPrepareError
    \/ AgentSaveAllocation
    \/ AgentSaveTask
    \/ AgentEmitTable
    \/ LoopContinue
    \/ LoopEnd

\* one request whose message list is run through the for loop
SpecLoop == InitMessages /\ [][NextLoop]_vars

\* ------------------------------------------------------------------------
\* generate_id (utils.py lines 61-75); strings are sequences of characters
\* ------------------------------------------------------------------------
\* string.digits + string.ascii_lowercase
Base36Chars ==
    <<"0", "1", "2", "3", "4", "5", "6", "7", "8", "9",
      "a", "b", "c", "d", "e", "f", "g", "h", "i", "j", "k", "l", "m",
      "n", "o", "p", "q", "r", "s", "t", "u", "v", "w", "x", "y", "z">>

\* lines 68-70: the while loop of to_base36, most significant digit first
RECURSIVE Base36Digits(_)
Base36Digits(num) ==
    IF num > 0
    THEN Append(Base36Digits(num \div 36), Base36Chars[(num % 36) + 1])
    ELSE << >>

\* a slip: no padding
ZfillNone(str) == str

\* str.zfill(2): zeros on the left up to width 2, longer strings unchanged
Zfill(str) ==
    IF Len(str) >= 2 THEN str
    ELSE IF Len(str) = 1 THEN <<"0">> \o str
    ELSE <<"0", "0">>

\* lines 67-71
to_base36(num) == Zfill(Base36Digits(num))

\* lines 63 and 73-74: clock in milliseconds, suffix as drawn by random.choices
generate_id(clock, suffix) == to_base36(clock % 1000) \o suffix

\* the characters random.choices may draw, and its results of length n
SuffixChars == {"0", "z"}

Suffixes(n) == [1..n -> SuffixChars]

InitId ==
    /\ InitRequest
    /\ asset_symbols = <<"AAPL">>
    /\ total_investment = 0
    /\ target_return = 0
    /\ target_volatility = 0
    /\ backend = "local"
    /\ allocObj = Absent
    /\ taskObj = Absent
    /\ InitClients
    /\ InitQuantities
    /\ InitLoop
    /\ InitApi
    /\ gclock \in 0..MaxClock
    /\ glength \in 0..MaxSuffix
    /\ gsuffix \in Suffixes(glength)
    /\ gid = None

GenerateId ==
    /\ gid = None
    /\ gid' = PyStr(generate_id(gclock, gsuffix))
    /\ UNCHANGED <<pc, requestVars, priceVars, optVars, agentVars, storeVars, clientVars,
                   quantityVars, loopVars, apiVars, gclock, glength, gsuffix>>

NextId == GenerateId

SpecId == InitId /\ [][NextId]_vars

\* ------------------------------------------------------------------------
\* The widget endpoints (api.py): get_task_data and get_allocation_data
\* ------------------------------------------------------------------------
\* the strings the date filter compares, in the order of Python's str <=
DateOrder == <<"", "2025-12-31", "2026-01-01", "2026-01-01T10:30:00", "2026-01-02">>

DateRank(str) == CHOOSE i \in 1..Len(DateOrder) : DateOrder[i] = str

\* .str[:10]: the first 10 characters
Prefix10(str) == IF str = "2026-01-01T10:30:00" THEN "2026-01-01" ELSE str

\* `if start_date:` -- a query parameter that is given and not empty
Given(param) == param # None /\ param.v # ""

\* line 386: task_data.get("timestamp", "")
TaskTimestamp(task) ==
    IF "timestamp" \in DOMAIN task THEN task.timestamp.v ELSE ""

\* lines 383-397: one row of the data frame per stored task
TaskFrame(tasks) ==
    [i \in 1..Len(tasks) |-> [TaskID |-> tasks[i].k, Timestamp |-> TaskTimestamp(tasks[i].v)]]

\* lines 400-403: the date filters on the first 10 characters of Timestamp
InDateRange(row, start, end) ==
    /\ Given(start) => DateRank(Prefix10(row.Timestamp)) >= DateRank(start.v)
    /\ Given(end) => DateRank(Prefix10(row.Timestamp)) <= DateRank(end.v)

\* line 408: sort_values("Timestamp", ascending=False), by insertion
RECURSIVE InsertNewestFirst(_, _)
InsertNewestFirst(row, sorted) ==
    IF sorted = << >> THEN <<row>>
    ELSE IF DateRank(row.Timestamp) > DateRank(Head(sorted).Timestamp)
         THEN <<row>> \o sorted
         ELSE <<Head(sorted)>> \o InsertNewestFirst(row, Tail(sorted))

RECURSIVE SortNewestFirst(_)
SortNewestFirst(rows) ==
    IF rows = << >> THEN << >>
    ELSE InsertNewestFirst(rows[Len(rows)], SortNewestFirst(SubSeq(rows, 1, Len(rows) - 1)))

\* lines 371-410
get_task_data(tasks, start, end) ==
    IF tasks = EmptyDict
    THEN [status |-> 200, endpoint |-> "task_data", rows |-> << >>]
    ELSE LET InRange(row) == InDateRange(row, start, end)
         IN  [status |-> 200, endpoint |-> "task_data",
              rows |-> SortNewestFirst(SelectSeq(TaskFrame(tasks), InRange))]

\* line 231: the default of allocations.get
Placeholder == <<[Ticker |-> PyStr("N/A"), Quantity |-> PyInt(0)]>>

\* lines 230-232
SelectedAllocation(allocations, id) ==
    IF DictHas(allocations, id) THEN DictGet(allocations, id) ELSE Placeholder

\* line 240: allocation["Risk Model"] raises KeyError on a row without that key
RiskFilterRaises(rows) == \E i \in 1..Len(rows) : "RiskModel" \notin DOMAIN rows[i]

\* lines 237-241
RiskFilter(rows, risk_model) ==
    LET Keep(row) == row.RiskModel.v = risk_model.v
    IN  SelectSeq(rows, Keep)

\* lines 243-252: every key of the row but the dropped one
DropKey(rows, key) ==
    [i \in 1..Len(rows) |-> [f \in (DOMAIN rows[i]) \ {key} |-> rows[i][f]]]

\* lines 215-254; an exception leaves the handler as a server error
get_allocation_data(allocations, id, risk_model, mode) ==
    IF ~Given(id)
    THEN [status |-> 200, endpoint |-> "allocation_data", error |-> "Allocation ID is required"]
    ELSE LET selected == SelectedAllocation(allocations, id.v)
         IN  IF Given(risk_model) /\ RiskFilterRaises(selected)
             THEN [status |-> 500, endpoint |-> "allocation_data"]
             ELSE [status |-> 200, endpoint |-> "allocation_data",
                   allocation |-> DropKey(IF Given(risk_model)
                                          THEN RiskFilter(selected, risk_model)
                                          ELSE selected,
                                          IF mode = "quantities" THEN "Weight" ELSE "Quantity")]

\* a task record with a "timestamp" field, as the listing expects it
TimestampedTask ==
    [timestamp |-> PyStr("2026-01-01T10:30:00"), asset_symbols |-> PyList(<<"GOOG">>),
     total_investment |-> PyInt(50)]

\* the tasks document: none, one task saved by the agent, or that task and
\* a timestamped one
StoredTasks ==
    {Absent}
    \cup {save_task("local", Absent, "a1", TaskToSave(<<"AAPL">>, 100, 500, 1500, day)) : day \in Dates}
    \cup {save_task("local",
                    save_task("local", Absent, "a1", TaskToSave(<<"AAPL">>, 100, 500, 1500, day)),
                    "b2", TimestampedTask) : day \in Dates}

\* the allocations document: none, one record, or a record with a note row
StoredAllocations ==
    InitialObjects
    \cup {save_allocation("local", Absent, "a1",
                          ExistingRows \o <<FailureRow("efficient_risk_note", RiskNote(0, 1))>>)}

QueryDates == {None, PyStr(""), PyStr("2025-12-31"), PyStr("2026-01-01"), PyStr("2026-01-02")}

QueryIds == {None, PyStr("a1"), PyStr("zz")}

QueryRiskModels == {None, PyStr("min_volatility"), PyStr("efficient_risk")}

QueryModes == {"weights", "quantities"}

InitQuery ==
    /\ InitRequest
    /\ asset_symbols = <<"AAPL">>
    /\ total_investment = 0
    /\ target_return = 0
    /\ target_volatility = 0
    /\ backend \in Backends
    /\ allocObj \in StoredAllocations
    /\ taskObj \in StoredTasks
    /\ InitClients
    /\ InitQuantities
    /\ InitLoop
    /\ InitIds
    /\ astart \in QueryDates
    /\ aend \in QueryDates
    /\ aid \in QueryIds
    /\ arisk \in QueryRiskModels
    /\ amode \in QueryModes
    /\ aresponse = None

\* GET /task_data
GetTaskData ==
    /\ aresponse = None
    /\ aresponse' = get_task_data(load_tasks(backend, taskObj), astart, aend)
    /\ UNCHANGED <<pc, requestVars, priceVars, optVars, agentVars, storeVars, clientVars,
                   quantityVars, loopVars, idVars, astart, aend, aid, arisk, amode>>

\* GET /allocation_data
GetAllocationData ==
    /\ aresponse = None
    /\ aresponse' = get_allocation_data(load_allocations(backend, allocObj), aid, arisk, amode)
    /\ UNCHANGED <<pc, requestVars, priceVars, optVars, agentVars, storeVars, clientVars,
                   quantityVars, loopVars, idVars, astart, aend, aid, arisk, amode>>

NextQuery == GetTaskData \/ GetAllocationData

SpecQuery == InitQuery /\ [][NextQuery]_vars

\* ------------------------------------------------------------------------
\* Properties
\* ------------------------------------------------------------------------
\* optimize_portfolio has just returned (results, failures)
OptimizerReturned == pc = "latest_prices"

\* prepare_allocation has returned its table to execution_loop
AllocationReturned == pc = "returned"

\* the try block of model raised
HasRaised(model) == DictHas(solves, model) /\ DictGet(solves, model).raised

\* w maps exactly the columns of the price matrix, in order, to weights
IsWeightMapping(w) ==
    /\ Len(w) = Len(columns)
    /\ \A i \in 1..Len(w) : w[i].k = columns[i] /\ w[i].v \in Int

FailureTexts ==
    {"Failed: e", "Failed even with adjustment: e",
     "Cannot validate - min volatility calculation failed"}

\* the indices of the rows of the table that satisfy Test
RowsWhere(Test(_)) == {i \in 1..Len(allocation) : Test(allocation[i])}

SiblingUnharmed(model) ==
    /\ DictHas(solves, model)
    /\ DictHas(results, model)
    /\ ~DictHas(failures, model)

\* efficient_risk when the min_volatility block raised: never attempted,
\* recorded as failed
RiskSkipped ==
    /\ ~DictHas(solves, "efficient_risk")
    /\ ~DictHas(results, "efficient_risk")
    /\ DictHas(failures, "efficient_risk")
    /\ DictGet(failures, "efficient_risk").msg
          = "Cannot validate - min volatility calculation failed"

\* C2 as stated: if the solve of a model raises, a failure message is
\* recorded for that model, and every other model whose own solve does not
\* raise was attempted and ends with a weight mapping and no failure entry.
C2_FailureIsolated ==
    OptimizerReturned =>
        \A model \in ModelNames :
            HasRaised(model) =>
                /\ DictHas(failures, model)
                /\ \A other \in ModelNames \ {model} :
                      ~HasRaised(other) => SiblingUnharmed(other)

\* C2 amended: as C2, except that efficient_risk depends on min_volatility:
\* when the min_volatility block raised, efficient_risk is not attempted and
\* is recorded as failed ("Cannot validate"); every other sibling whose own
\* solve does not raise was attempted and ends with a weight mapping and no
\* failure entry.
C2_FailureIsolatedButRisk ==
    OptimizerReturned =>
        \A model \in ModelNames :
            HasRaised(model) =>
                /\ DictHas(failures, model)
                /\ \A other \in ModelNames \ {model} :
                      ~HasRaised(other) =>
                          IF other = "efficient_risk" /\ HasRaised("min_volatility")
                          THEN RiskSkipped
                          ELSE SiblingUnharmed(other)

C2_Witness ==
    /\ OptimizerReturned
    /\ HasRaised("min_volatility")
    /\ RiskSkipped
    /\ SiblingUnharmed("max_sharpe")
    /\ SiblingUnharmed("efficient_return")

\* C3: when min_volatility succeeded with achieved volatility m and the
\* requested target_volatility <= m, efficient_risk is solved only at a
\* target other than the requested one and strictly greater than m; on
\* success the adjustment note is recorded, otherwise a failure message.
C3_RiskAdjustedAboveMinimum ==
    (OptimizerReturned /\ min_volatility # None /\ target_volatility <= min_volatility.v) =>
        /\ DictHas(solves, "efficient_risk") =>
              /\ DictGet(solves, "efficient_risk").target.v # target_volatility
              /\ DictGet(solves, "efficient_risk").target.v > min_volatility.v
        /\ DictHas(results, "efficient_risk") =>
              /\ DictHas(failures, "efficient_risk_note")
              /\ DictGet(failures, "efficient_risk_note")
                    = RiskNote(target_volatility, DictGet(solves, "efficient_risk").target.v)
        /\ ~DictHas(results, "efficient_risk") => DictHas(failures, "efficient_risk")

\* C4: when the requested target_return >= c, the maximum of mu,
\* efficient_return is solved only at a target strictly less than c; on
\* success the adjustment note is recorded, otherwise a failure message.
C4_ReturnAdjustedBelowCeiling ==
    (/\ OptimizerReturned
     /\ DictHas(solves, "efficient_return")
     /\ target_return >= DictGet(solves, "efficient_return").limit.v) =>
        /\ DictGet(solves, "efficient_return").target.v
              < DictGet(solves, "efficient_return").limit.v
        /\ DictHas(results, "efficient_return") =>
              /\ DictHas(failures, "efficient_return_note")
              /\ DictGet(failures, "efficient_return_note")
                    = ReturnNote(target_return, DictGet(solves, "efficient_return").target.v)
        /\ ~DictHas(results, "efficient_return") => DictHas(failures, "efficient_return")

\* C5: for non-negative weights, positive prices and a non-negative
\* investment T, calculate_quantities returns for each ticker an integer q
\* with q * p <= T * weight < (q + 1) * p (the floor of the proportional
\* dollars divided by the price), and it raises only for a price that is NaN.
C5_QuantityIsFloor ==
    /\ quantities = Raised => \E i \in 1..Len(qprices) : qprices[i].v = NaN
    /\ (quantities # None /\ quantities # Raised) =>
          /\ DictKeys(quantities) = DictKeys(qweights)
          /\ \A i \in 1..Len(qweights) :
                LET q == DictGet(quantities, qweights[i].k)
                    price == DictGet(qprices, qweights[i].k).v
                    dollars == qinvestment * qweights[i].v
                IN  /\ q \in Int
                    /\ q * price <= dollars
                    /\ dollars < (q + 1) * price

\* weights 0.5 / 0.5, prices 150 and 2800, investment 100000: 333 and 17
C5_Witness ==
    /\ qweights = <<[k |-> "AAPL", v |-> 50000], [k |-> "GOOG", v |-> 50000]>>
    /\ qprices = <<[k |-> "AAPL", v |-> PyFloat(15000)], [k |-> "GOOG", v |-> PyFloat(280000)]>>
    /\ qinvestment = 100
    /\ quantities # None
    /\ quantities # Raised
    /\ quantities = <<[k |-> "AAPL", v |-> 333], [k |-> "GOOG", v |-> 17]>>

\* the row is the sentinel row of key with the given message
IsSentinel(row, key, message) ==
    /\ row.RiskModel = PyStr(key)
    /\ row.Ticker = PyStr("N/A")
    /\ row.Weight = PyFloat(0)
    /\ row.Quantity = PyInt(0)
    /\ row.Note = PyStr(message)

\* every model with a weight mapping has exactly one row per ticker of the
\* mapping, with that weight and Note = None
WeightRowsPresent ==
    \A model \in ModelNames :
        DictHas(results, model) =>
            \A j \in 1..Len(DictGet(results, model)) :
                LET entry == DictGet(results, model)[j]
                    found == {i \in 1..Len(allocation) :
                                 /\ allocation[i].RiskModel = PyStr(model)
                                 /\ allocation[i].Ticker = PyStr(entry.k)}
                IN  /\ Cardinality(found) = 1
                    /\ \A i \in found : /\ allocation[i].Note = None
                                        /\ allocation[i].Weight = PyFloat(entry.v)

\* every model recorded only as a failure has exactly one row, its sentinel
FailedModelRowsPresent ==
    \A model \in ModelNames :
        (~DictHas(results, model) /\ DictHas(failures, model)) =>
            LET found == {i \in 1..Len(allocation) : allocation[i].RiskModel = PyStr(model)}
            IN  /\ Cardinality(found) = 1
                /\ \A i \in found : IsSentinel(allocation[i], model, DictGet(failures, model))

\* the models recorded only as a failure
OnlyFailed == {model \in ModelNames : ~DictHas(results, model) /\ DictHas(failures, model)}

\* C6 as stated: the table has one row per (model, ticker) of every weight
\* mapping with Note = None, one sentinel row for every model recorded only
\* as a failure, and no other rows.
C6_RowsAndNoOthers ==
    AllocationReturned =>
        /\ WeightRowsPresent
        /\ FailedModelRowsPresent
        /\ Len(allocation) = Len(results) * Len(columns) + Cardinality(OnlyFailed)

\* C6 amended: the table has one row per (model, ticker) of every weight
\* mapping with Note = None, followed by one sentinel row (Ticker "N/A",
\* Weight 0.0, Quantity 0, Note = the message) for every entry of failures,
\* the "<model>_note" entries of adjusted models included, and no other rows.
C6_RowsPerEntry ==
    AllocationReturned =>
        /\ WeightRowsPresent
        /\ FailedModelRowsPresent
        /\ Len(allocation) = Len(results) * Len(columns) + Len(failures)
        /\ \A j \in 1..Len(failures) :
              IsSentinel(allocation[Len(results) * Len(columns) + j],
                         failures[j].k, failures[j].v)

C6_Witness ==
    /\ AllocationReturned
    /\ DictHas(results, "efficient_return")
    /\ DictHas(failures, "efficient_return_note")
    /\ DictHas(failures, "max_sharpe")
    /\ Len(columns) = 2
    /\ Len(allocation) > Len(results) * Len(columns) + Cardinality(OnlyFailed)

\* the table has the full per-ticker rows of model and the sentinel row
\* that carries note, labelled "<model>_note"
AdjustedRowsPresent(model, noteKey, note) ==
    /\ \A j \in 1..Len(columns) :
          \E i \in 1..Len(allocation) :
              /\ allocation[i].RiskModel = PyStr(model)
              /\ allocation[i].Ticker = PyStr(columns[j])
              /\ allocation[i].Weight = PyFloat(DictGet(DictGet(results, model), columns[j]))
              /\ allocation[i].Quantity.py = "int"
              /\ allocation[i].Note = None
    /\ \E i \in 1..Len(allocation) : IsSentinel(allocation[i], noteKey, note)

RiskAdjusted ==
    /\ DictHas(results, "efficient_risk")
    /\ min_volatility # None
    /\ target_volatility <= min_volatility.v

ReturnAdjusted ==
    /\ DictHas(results, "efficient_return")
    /\ target_return >= DictGet(solves, "efficient_return").limit.v

\* C7: when efficient_risk or efficient_return succeeded only after
\* auto-adjustment, the table holds both the model's full per-ticker rows
\* (weights and quantities) and the sentinel row whose Note documents the
\* adjustment (the row is labelled "<model>_note").
C7_AdjustedKeepsBoth ==
    AllocationReturned =>
        /\ RiskAdjusted =>
              AdjustedRowsPresent("efficient_risk", "efficient_risk_note",
                  RiskNote(target_volatility, AdjustedVolatility(min_volatility.v)))
        /\ ReturnAdjusted =>
              AdjustedRowsPresent("efficient_return", "efficient_return_note",
                  ReturnNote(target_return,
                             AdjustedReturn(DictGet(solves, "efficient_return").limit.v)))

C7_Witness ==
    /\ AllocationReturned
    /\ RiskAdjusted
    /\ ReturnAdjusted
    /\ min_volatility.v > 0
    /\ Len(columns) = 2

\* C8: whenever prepare_allocation returns, the table is non-empty and has
\* at least one row for each of the four risk models.
C8_AllModelsInTable ==
    AllocationReturned =>
        /\ Len(allocation) > 0
        /\ \A model \in ModelNames :
              \E i \in 1..Len(allocation) : allocation[i].RiskModel = PyStr(model)

C8_Witness ==
    /\ AllocationReturned
    /\ ~DictHas(results, "max_sharpe")
    /\ ~DictHas(results, "min_volatility")
    /\ DictHas(results, "efficient_return")

\* a requested ticker is no column of the fetched price matrix
MissingColumn ==
    /\ columns # << >>
    /\ LatestPricesRaises(asset_symbols, columns)

HasErrorEvent(message) ==
    \E i \in 1..Len(events) : events[i] = ErrorStep(message)

HasTableEvent == \E i \in 1..Len(events) : events[i].event = "table"

C10_SaveThenLoad ==
    [][\A p \in Clients :
           (cpc[p] = "loaded" /\ cpc'[p] = "returned") =>
               /\ DictHas(load_allocations(backend', allocObj'), cid[p])
               /\ DictGet(load_allocations(backend', allocObj'), cid[p]) = cdata[p]
               /\ cret'[p] = PyStr(cid[p])]_vars

C10_Witness ==
    \E p \in Clients :
        /\ cpc[p] = "returned"
        /\ cret[p] = PyStr("a1")
        /\ backend = "s3"
        /\ Len(load_allocations(backend, allocObj)) = 2
        /\ DictGet(load_allocations(backend, allocObj), "a1") = cdata[p]
        /\ cdata[p] # ExistingRows

\* every entry of before other than id is an entry of after, unchanged
OthersKept(before, after, id) ==
    \A i \in 1..Len(before) :
        before[i].k # id =>
            /\ DictHas(after, before[i].k)
            /\ DictGet(after, before[i].k) = before[i].v

\* C11: a save_allocation(X, rows) or save_task(X, task) during which no
\* other writer changed the collection (what it loaded is what is stored
\* when it writes) changes only the entry of X: every other id is kept with
\* its value, no id is added besides X, and the other collection is not
\* touched, for both backends.
C11_SaveChangesOnlyItsEntry ==
    [][\A p \in Clients :
           /\ (/\ cpc[p] = "loaded"
               /\ cpc'[p] = "returned"
               /\ cbuf[p] = load_allocations(backend, allocObj)) =>
                  /\ OthersKept(load_allocations(backend, allocObj),
                                load_allocations(backend', allocObj'), cid[p])
                  /\ DictKeys(load_allocations(backend', allocObj'))
                        = DictKeys(load_allocations(backend, allocObj)) \cup {cid[p]}
                  /\ taskObj' = taskObj
           /\ (/\ cpc[p] = "task_loaded"
               /\ cpc'[p] = "task_returned"
               /\ cbuf[p] = load_tasks(backend, taskObj)) =>
                  /\ OthersKept(load_tasks(backend, taskObj),
                                load_tasks(backend', taskObj'), cid[p])
                  /\ DictKeys(load_tasks(backend', taskObj'))
                        = DictKeys(load_tasks(backend, taskObj)) \cup {cid[p]}
                  /\ allocObj' = allocObj]_vars

\* a client has saved allocation and task b2 next to the earlier a1
C11_Witness ==
    \E p \in Clients :
        /\ cpc[p] = "task_returned"
        /\ cid[p] = "b2"
        /\ DictKeys(load_tasks(backend, taskObj)) = {"a1", "b2"}
        /\ DictKeys(load_allocations(backend, allocObj)) = {"a1", "b2"}
        /\ DictGet(load_allocations(backend, allocObj), "a1") = ExistingRows
        /\ DictGet(load_tasks(backend, taskObj), "a1") = ClientTask

\* C12: nothing serialises the load and the write of different saves: the
\* collection stored by a save is the one that save loaded plus its own
\* entry, whatever is stored at the time of the write, so two saves with
\* distinct ids can both return while only one of the ids is stored.
C12_WriteReplacesWithOwnLoad ==
    [][\A p \in Clients :
           (cpc[p] = "loaded" /\ cpc'[p] = "returned") =>
               DictKeys(load_allocations(backend', allocObj'))
                   = DictKeys(cbuf[p]) \cup {cid[p]}]_vars

\* both saves have returned their ids, one of the ids is not stored
C12_Witness ==
    \E p \in Clients, q \in Clients :
        /\ cpc[p] = "returned"
        /\ cpc[q] = "returned"
        /\ cret[p] = PyStr("a1")
        /\ cret[q] = PyStr("b2")
        /\ DictKeys(load_allocations(backend, allocObj)) = {"b2"}

\* C13: no step changes or removes the rows stored under an id.
C13_PersistedNeverChanges ==
    [][OthersKept(load_allocations(backend, allocObj),
                  load_allocations(backend', allocObj'), "")]_vars

\* C14: every id of the task collection is an id of the allocation collection.
C14_TaskIdsAreAllocationIds ==
    DictKeys(load_tasks(backend, taskObj)) \subseteq DictKeys(load_allocations(backend, allocObj))

\* C15: a load of a file or object that does not exist, which the backend
\* answers with key-not-found, returns the empty collection, raises nothing
\* and creates nothing, for allocations and tasks and for both backends.
C15_LoadOfAbsentIsEmpty ==
    [][\A p \in Clients :
           /\ (/\ cpc[p] = "called"
               /\ cpc'[p] # "called"
               /\ ~allocObj.exists
               /\ (backend = "local" \/ cresp'[p] = "NoSuchKey")) =>
                  /\ cpc'[p] = "loaded"
                  /\ cbuf'[p] = EmptyDict
                  /\ allocObj' = Absent
                  /\ load_allocations(backend', allocObj') = EmptyDict
           /\ (/\ cpc[p] = "task_called"
               /\ cpc'[p] # "task_called"
               /\ ~taskObj.exists
               /\ (backend = "local" \/ cresp'[p] = "NoSuchKey")) =>
                  /\ cpc'[p] = "task_loaded"
                  /\ cbuf'[p] = EmptyDict
                  /\ taskObj' = Absent
                  /\ load_tasks(backend', taskObj') = EmptyDict]_vars

\* the object store has answered NoSuchKey for the tasks, or the file system
\* has found no allocations file: the load returned {}
C15_Witness ==
    \E p \in Clients :
        /\ cbuf[p] = EmptyDict
        /\ backend = "s3"
        /\ cpc[p] = "task_loaded"
        /\ cresp[p] = "NoSuchKey"
        /\ taskObj = Absent

\* the backend answered the last read of p with an error other than key-not-found
LoadFailed(p) == cresp[p] \in {"AccessDenied", "OSError"}

\* C16: a load that the backend answers with an error other than
\* key-not-found raises: the save returns no id and writes nothing, and no
\* save writes after a failed load.
C16_LoadErrorPropagates ==
    [][\A p \in Clients :
           /\ (/\ cpc[p] \in {"called", "task_called"}
               /\ cpc'[p] # cpc[p]
               /\ cresp'[p] \in {"AccessDenied", "OSError"}) =>
                  /\ cpc'[p] = "raised"
                  /\ cbuf'[p] = cbuf[p]
                  /\ cret'[p] = cret[p]
                  /\ allocObj' = allocObj
                  /\ taskObj' = taskObj
           /\ (cpc[p] \in {"loaded", "task_loaded"} /\ cpc'[p] # cpc[p]) => ~LoadFailed(p)]_vars

\* save_allocation raised on AccessDenied while an earlier record is stored
C16_Witness ==
    \E p \in Clients :
        /\ cpc[p] = "raised"
        /\ cresp[p] = "AccessDenied"
        /\ cret[p] = None
        /\ backend = "s3"
        /\ DictHas(load_allocations(backend, allocObj), "a1")
        /\ DictGet(load_allocations(backend, allocObj), "a1") = ExistingRows

\* the ERROR status events of the stream
ErrorEvents ==
    {i \in 1..Len(events) : events[i].event = "status" /\ events[i].eventType = "ERROR"}

HasStep(message) == \E i \in 1..Len(events) : events[i] = Step(message)

HasCitations == \E i \in 1..Len(events) : events[i].event = "citations"

\* prepare_allocation was called and raised: the loop has left the try block
\* of lines 133-147 without an allocation
PrepareFailed ==
    /\ HasStep("Fetching historical prices...")
    /\ allocation = None
    /\ pc \in {"llm", "done", "failed"}

SaveFailed ==
    /\ allocation # None
    /\ pc \in {"llm", "done", "failed"}
    /\ ~taskObj.exists

RECURSIVE WeightSum(_)
WeightSum(w) == IF w = << >> THEN 0 ELSE Head(w).v + WeightSum(Tail(w))

\* C19: every weight mapping of `results` has non-negative weights whose sum
\* differs from 1.0 (100000 units of 1e-5) by at most 1e-6 (a tenth of a unit).
C19_WeightsSumToOne ==
    \A i \in 1..Len(results) :
        LET w == results[i].v
            off == WeightSum(w) - 100000
        IN  /\ \A j \in 1..Len(w) : w[j].v >= 0
            /\ 10 * (IF off < 0 THEN -off ELSE off) <= 1

\* the try blocks of min_volatility and efficient_risk are behind
RiskStepDone == pc \notin {"request", "fetch", "max_sharpe", "min_volatility", "efficient_risk"}

\* C20: if the min_volatility step failed, so that min_volatility is None,
\* efficient_risk is never solved, has no weights, and is recorded as failed
\* with the message that it cannot be validated, for every target_volatility.
C20_UnknownMinimumSkipsRisk ==
    /\ (RiskStepDone /\ DictHas(failures, "min_volatility")) =>
          /\ min_volatility = None
          /\ ~DictHas(solves, "efficient_risk")
          /\ ~DictHas(results, "efficient_risk")
          /\ ~DictHas(failures, "efficient_risk_note")
          /\ DictHas(failures, "efficient_risk")
          /\ DictGet(failures, "efficient_risk")
                = Message("Cannot validate - min volatility calculation failed", << >>)
    /\ (RiskStepDone /\ DictHas(solves, "efficient_risk")) => min_volatility # None

\* min_volatility solved but its performance could not be computed; the
\* target volatility is the largest one requested
C20_Witness ==
    /\ OptimizerReturned
    /\ DictHas(failures, "min_volatility")
    /\ DictHas(results, "min_volatility")
    /\ target_volatility = MaxTargetLevel * 1500
    /\ DictHas(failures, "efficient_risk")
    /\ ~DictHas(solves, "efficient_risk")

\* the value of a base-36 digit
Base36Value(c) == (CHOOSE i \in 1..36 : Base36Chars[i] = c) - 1

ListedIds == {aresponse.rows[i].TaskID : i \in 1..Len(aresponse.rows)}

\* day lies within the date filter of the query, bounds included
DayInQuery(day) ==
    /\ Given(astart) => DateRank(astart.v) <= DateRank(day)
    /\ Given(aend) => DateRank(day) <= DateRank(aend.v)

\* C23: a task the agent saved with creation date D is listed by
\* get_task_data exactly when D lies within [start_date, end_date].
C23_AgentTaskListedInRange ==
    (aresponse # None /\ aresponse.endpoint = "task_data") =>
        \A i \in 1..Len(load_tasks(backend, taskObj)) :
            LET entry == load_tasks(backend, taskObj)[i]
            IN  "date" \in DOMAIN entry.v =>
                    (entry.k \in ListedIds <=> DayInQuery(entry.v.date.v))

\* C24: for an allocation_id that is not stored, get_allocation_data answers
\* successfully with one placeholder row whose Ticker is "N/A", whatever
\* risk_model and weights_or_quantities are.
C24_AbsentIdIsPlaceholder ==
    (/\ aresponse # None
     /\ aresponse.endpoint = "allocation_data"
     /\ Given(aid)
     /\ ~DictHas(load_allocations(backend, allocObj), aid.v)) =>
        /\ aresponse.status = 200
        /\ Len(aresponse.allocation) = 1
        /\ aresponse.allocation[1].Ticker = PyStr("N/A")

\* ------------------------------------------------------------------------
\* The event stream of a request with several messages
\* ------------------------------------------------------------------------
TableEvents == {i \in 1..Len(events) : events[i].event = "table"}

\* C21: the stream of one request holds at most one table artifact; it comes
\* directly after the step "Allocation saved successfully.", which follows the
\* step "Basket weights optimized. Saving task and results...", and its name
\* is an id of the allocation collection and of the task collection.
C21_TableOnceAfterSaves ==
    /\ Cardinality(TableEvents) <= 1
    /\ \A i \in TableEvents :
          /\ i >= 3
          /\ events[i - 1] = Step("Allocation saved successfully.")
          /\ \E j \in 1..(i - 2) :
                events[j] = Step("Basket weights optimized. Saving task and results...")
          /\ DictHas(load_allocations(backend, allocObj), events[i].name)
          /\ DictHas(load_tasks(backend, taskObj), events[i].name)

\* the request has come to its end, by the last event or by an exception
RequestEnded == pc \in {"done", "failed"}

\* save_allocation and save_task of the request have both returned
BothSavesReturned ==
    /\ allocation # None
    /\ allocation_id # None
    /\ taskObj.exists

\* C22: a request whose allocation was prepared and whose two saves both
\* returned ends its stream with the citations event of the saved id, after
\* every chunk of the LLM; every other request has no citations event.
C22_CitationsIffSaved ==
    RequestEnded =>
        IF BothSavesReturned
        THEN /\ events # << >>
             /\ events[Len(events)] = Citations(allocation_id.v)
             /\ \A i \in 1..Len(events) :
                   events[i].event = "message_chunk" => i < Len(events)
        ELSE ~HasCitations

\* C26: every row of the table of prepare_allocation names one of the four
\* risk models in its Risk Model column.
C26_RowsNameAModel ==
    (allocation # None) =>
        \A i \in 1..Len(allocation) : allocation[i].RiskModel.v \in ModelNames

\* C27: when optimize_portfolio has returned, each of the four model names is
\* a key of exactly one of results and failures.
C27_ModelInExactlyOneMapping ==
    OptimizerReturned =>
        \A m \in ModelNames : DictHas(results, m) # DictHas(failures, m)

StartedRuns ==
    {i \in 1..Len(events) : events[i] = Step("Starting asset basket allocation...")}

\* C28: is_last_message holds of no human message that has a human message
\* after it, and the pipeline starts at most once in a request.
C28_OnlyLastHumanIsLast ==
    /\ \A i \in 1..Len(messages) :
          (IsHuman(messages[i]) /\ is_last_message(messages[i], messages))
              => \A j \in (i + 1)..Len(messages) : ~IsHuman(messages[j])
    /\ Cardinality(StartedRuns) <= 1

\* C29: when the request has ended, an id is in the allocation collection
\* exactly if it is in the task collection.
C29_SavedBothOrNeither ==
    RequestEnded =>
        DictKeys(load_allocations(backend, allocObj)) = DictKeys(load_tasks(backend, taskObj))

\* C30: the ERROR event "Error saving allocation." is in the stream only if
\* save_allocation or save_task failed, never together with the table.
C30_SaveErrorOnlyOnFailedSave ==
    HasErrorEvent("Error saving allocation.") =>
        /\ ~BothSavesReturned
        /\ ~HasTableEvent

====
